---- MODULE Spec2Model ----
(***************************************************************************)
(* BRC-20 interpreter (src/ord/brc20.go) over the committed key-value      *)
(* store (src/ord/stateless/header.go).                                    *)
(*                                                                         *)
(* Go strings and byte slices are sequences of small integers: a tick is   *)
(* a sequence of byte codes, a pkscript is a hex string, i.e. a sequence   *)
(* of nibbles 0..15, a value slot is a sequence of ValueSize bytes, and    *)
(* nil / the empty slice is <<>>.                                          *)
(***************************************************************************)
EXTENDS Integers, Sequences, FiniteSets, TLC

\* ------------------------------------------------------------------ bounds
\* Bytes per value slot. The program uses 32; the model scales the slot (and
\* with it the width of uint256 arithmetic, 256^ValueSize) down.
ValueSize == 2
\* Blocks processed before the model stops.
MaxHeight == 4
\* Longest batch handed to one Exec call.
MaxBatch == 2
\* getLimit(): the configured upper limit of any single amount.
UpperLimit == 3
\* Blocks the caller may page without asking for the block hash (catch-up).
CatchUp == 1

Modulus == 256 ^ ValueSize

\* ------------------------------------------------------ identifiers (brc20.go)
AvailableBalancePkscript == 0
AvailableBalance == 1
OverallBalancePkscript == 2
OverallBalance == 3
Exists == 4
RemainingSupply == 5
MaxSupply == 6
LimitPerMint == 7
Decimals == 8

TransferInscribeSourceWallet == 0
TransferInscribeSourcePkscript1 == 1
TransferInscribeSourcePkscript2 == 2
TransferTransferCount == 3
TransferInscribeCount == 4

\* ------------------------------------------------------------ uint256 codec
\* uint256.Int.Add / Sub: arithmetic modulo 2^256 (here modulo Modulus).
U256Add(a, b) == (a + b) % Modulus
U256Sub(a, b) == (a - b + Modulus) % Modulus

\* Big-endian encoding of n over one slot.
convertIntToByte(n) ==
    [i \in 1..ValueSize |-> (n \div (256 ^ (ValueSize - i))) % 256]

RECURSIVE BigEndian(_)
BigEndian(b) ==
    IF Len(b) = 0 THEN 0
    ELSE (256 * BigEndian(SubSeq(b, 1, Len(b) - 1)) + b[Len(b)]) % Modulus

\* Big-endian decoding; the empty slice decodes to zero.
convertByteToInt(b) == BigEndian(b)

\* Right-pads a slice of at most one slot with zero bytes.
padTo32Bytes(b) == [i \in 1..ValueSize |-> IF i <= Len(b) THEN b[i] ELSE 0]

\* ----------------------------------------------------------- key derivation
\* keccak-224 is taken to be collision free: the digest is an injective
\* scrambling of the input bytes (7 is invertible modulo 256).
Keccak224(s) == [i \in 1..Len(s) |-> (7 * s[i] + i) % 256]

GetHashPanics(tick) == ~(Len(tick) = 4 \/ Len(tick) = 5)

GetHash(stateID, uniqueID, tick) ==
    [space |-> "state", id |-> stateID, digest |-> Keccak224(uniqueID), tick |-> tick]

GetEventHash(eventID, inscrID) ==
    [space |-> "event", id |-> eventID, digest |-> Keccak224(inscrID), tick |-> <<>>]

\* ------------------------------------------------------- the store (Header)
\* A header is [Root, KV, Temp, Height, Hash, aborted]; Root and KV are
\* functions from the keys written so far to slots; aborted records a panic.
BlockHash(height) == height

NewHeader(initHeight, initHash) ==
    [Root |-> <<>>, KV |-> <<>>, Temp |-> <<>>,
     Height |-> initHeight, Hash |-> initHash, aborted |-> FALSE]

\* verkle Root.Get: nil for a key that was never inserted.
get(h, key) == IF key \in DOMAIN h.Root THEN h.Root[key] ELSE <<>>

MapPut(m, key, value) ==
    [k \in (DOMAIN m) \cup {key} |-> IF k = key THEN value ELSE m[k]]

\* copy(array[:], b) into a zeroed [ValueSize]byte.
CopyToSlot(b) == [i \in 1..ValueSize |-> IF i <= Len(b) THEN b[i] ELSE 0]

\* insert that also writes the value through to KV: the variant
\* C13_StagedInsert must tell apart from the code.
insert_WriteThrough(h, key, value) ==
    LET oldValue == get(h, key)
        oldValueArray == CopyToSlot(oldValue)
        newValueArray == CopyToSlot(value)
    IN  IF Len(value) # ValueSize
        THEN [h EXCEPT !.aborted = TRUE]
        ELSE [h EXCEPT !.Temp = Append(@, [Key |-> key,
                                           OldValue |-> oldValueArray,
                                           NewValue |-> newValueArray,
                                           OldValueExists |-> oldValue # <<>>]),
                       !.KV = MapPut(@, key, newValueArray)]

insert(h, key, value) ==
    LET oldValue == get(h, key)
        oldValueArray == CopyToSlot(oldValue)
        newValueArray == CopyToSlot(value)
    IN  IF Len(value) # ValueSize
        THEN [h EXCEPT !.aborted = TRUE]
        ELSE [h EXCEPT !.Temp = Append(@, [Key |-> key,
                                           OldValue |-> oldValueArray,
                                           NewValue |-> newValueArray,
                                           OldValueExists |-> oldValue # <<>>])]

InsertUInt256(h, key, n) == insert(h, key, convertIntToByte(n))

GetUInt256(h, key) ==
    LET value == get(h, key)
    IN  IF Len(value) = 0 THEN 0 ELSE BigEndian(value)

\* The map after `for _, elem := range elems { m[elem.Key] = elem.NewValue }`:
\* every key of elems holds the NewValue of its last element.
ApplyTemp(m, elems) ==
    LET staged == {elems[i].Key : i \in 1..Len(elems)}
        last(k) == CHOOSE i \in 1..Len(elems) :
                      /\ elems[i].Key = k
                      /\ \A j \in (i + 1)..Len(elems) : elems[j].Key # k
    IN  [k \in (DOMAIN m) \cup staged |->
            IF k \in staged THEN elems[last(k)].NewValue ELSE m[k]]

\* Paging that flushes the staged entries to KV alone: the variant
\* C18_Lockstep must tell apart from the code.
Paging_KVOnly(h, queryHash, hashOk) ==
    LET flushed == [h EXCEPT !.KV = ApplyTemp(h.KV, h.Temp),
                             !.Temp = <<>>,
                             !.Height = h.Height + 1]
    IN  IF queryHash
        THEN IF ~hashOk
             THEN [h |-> flushed, err |-> TRUE]
             ELSE [h |-> [flushed EXCEPT !.Hash = BlockHash(flushed.Height)], err |-> FALSE]
        ELSE [h |-> flushed, err |-> FALSE]

\* Paging that lets the first staged entry of a key win: the variant
\* C14_PagePostState must tell apart from the code.
Paging_FirstWins(h, queryHash, hashOk) ==
    LET reversed == [i \in 1..Len(h.Temp) |-> h.Temp[Len(h.Temp) + 1 - i]]
        flushed == [h EXCEPT !.KV = ApplyTemp(h.KV, reversed),
                             !.Root = ApplyTemp(h.Root, reversed),
                             !.Temp = <<>>,
                             !.Height = h.Height + 1]
    IN  IF queryHash
        THEN IF ~hashOk
             THEN [h |-> flushed, err |-> TRUE]
             ELSE [h |-> [flushed EXCEPT !.Hash = BlockHash(flushed.Height)], err |-> FALSE]
        ELSE [h |-> flushed, err |-> FALSE]

\* Paging: hashOk is the outcome of getter.GetBlockHash. The result carries
\* the returned error in err.
Paging(h, queryHash, hashOk) ==
    LET flushed == [h EXCEPT !.KV = ApplyTemp(h.KV, h.Temp),
                             !.Root = ApplyTemp(h.Root, h.Temp),
                             !.Temp = <<>>,
                             !.Height = h.Height + 1]
    IN  IF queryHash
        THEN IF ~hashOk
             THEN [h |-> flushed, err |-> TRUE]
             ELSE [h |-> [flushed EXCEPT !.Hash = BlockHash(flushed.Height)], err |-> FALSE]
        ELSE [h |-> flushed, err |-> FALSE]

\* KVStorage, the interface Exec is written against, bound to the Header.
Insert(h, key, value) == insert(h, key, value)
Get(h, key) == get(h, key)
GetValueOrZero(h, key) == GetUInt256(h, key)

\* ------------------------------------------- blobs and snapshots (Header)
\* verkle.NodeWidth: the number of slots under one stem.
NodeWidth == 256

\* A key given by its stem (the first 31 bytes) and its last byte.
StoreKey(stem, suffix) ==
    [space |-> "raw", id |-> suffix, digest |-> stem, tick |-> <<>>]

RECURSIVE InsertSlots(_, _, _, _, _)
\* The loop of InsertBytes from index i on. backing is the array the slice
\* value points into, up to its capacity: value[i*ValueSize:(i+1)*ValueSize]
\* panics beyond the capacity and reads the backing array beyond the length.
InsertSlots(h, key, backing, i, requiredSlots) ==
    IF i >= requiredSlots \/ h.aborted THEN h
    ELSE IF (i + 1) * ValueSize > Len(backing) THEN [h EXCEPT !.aborted = TRUE]
    ELSE InsertSlots(insert(h, StoreKey(key.digest, (key.id + i) % 256),
                            SubSeq(backing, i * ValueSize + 1, (i + 1) * ValueSize)),
                     key, backing, i + 1, requiredSlots)

\* InsertBytes(key, value), spare being the bytes of value's backing array
\* between its length and its capacity.
InsertBytes(h, key, value, spare) ==
    LET expectedSize == (NodeWidth - key.id) * ValueSize
        requiredSlots == (Len(value) + ValueSize - 1) \div ValueSize
    IN  IF Len(value) > expectedSize THEN [h EXCEPT !.aborted = TRUE]
        ELSE InsertSlots(InsertUInt256(h, key, requiredSlots), key, value \o spare,
                         0, requiredSlots)

RECURSIVE GetSlots(_, _, _, _)
\* The loop of GetBytes over the indices lo..hi-1: the slots read are
\* appended in index order. The range is halved so that a large slot count
\* does not nest one level per slot.
GetSlots(h, key, lo, hi) ==
    IF lo >= hi THEN <<>>
    ELSE IF hi = lo + 1 THEN get(h, StoreKey(key.digest, (key.id + lo) % 256))
    ELSE LET mid == (lo + hi) \div 2
         IN  GetSlots(h, key, lo, mid) \o GetSlots(h, key, mid, hi)

\* GetBytes(key): the slot count read at key, then that many slots from key on.
GetBytes(h, key) ==
    LET requiredSlots == GetUInt256(h, key)
    IN  GetSlots(h, key, 0, requiredSlots)

RECURSIVE SetToSeq(_)
SetToSeq(S) ==
    IF S = {} THEN <<>>
    ELSE LET x == CHOOSE y \in S : TRUE IN <<x>> \o SetToSeq(S \ {x})

\* gob encoding of a KeyValueMap: a type descriptor, then one key/value pair
\* per entry, in the order the map is iterated.
GobEncode(kv) ==
    [descriptor |-> TRUE,
     entries |-> [i \in 1..Cardinality(DOMAIN kv) |->
                    <<SetToSeq(DOMAIN kv)[i], kv[SetToSeq(DOMAIN kv)[i]]>>]]

\* A buffer cut short: inside its last pair, or inside the descriptor.
Truncated(buffer) ==
    IF buffer.entries = <<>> THEN [buffer EXCEPT !.descriptor = FALSE]
    ELSE [buffer EXCEPT !.entries[Len(buffer.entries)] = <<@[1]>>]

\* gob decoding: an error for a buffer that is cut short.
GobDecode(buffer) ==
    IF ~buffer.descriptor \/ \E i \in 1..Len(buffer.entries) : Len(buffer.entries[i]) # 2
    THEN [kv |-> <<>>, err |-> TRUE]
    ELSE [kv |-> ApplyTemp(<<>>, [i \in 1..Len(buffer.entries) |->
                                    [Key |-> buffer.entries[i][1],
                                     NewValue |-> buffer.entries[i][2]]]),
          err |-> FALSE]

\* Serialize: [buffer, err]; encoding a KeyValueMap does not fail.
Serialize(h) == [buffer |-> GobEncode(h.KV), err |-> FALSE]

\* Header.Hash of a restored store: the empty string.
EmptyHash == -1

\* Deserialize that returns the store without rebuilding the tree: the
\* variant C17_SnapshotRoundTrip must tell apart from the code.
Deserialize_EmptyRoot(buffer, height, insertOk) ==
    LET d == GobDecode(buffer)
        kv == d.kv
    IN  IF d.err THEN [ok |-> FALSE, header |-> <<>>, err |-> TRUE]
        ELSE IF DOMAIN kv # {} /\ ~insertOk THEN [ok |-> FALSE, header |-> <<>>, err |-> FALSE]
        ELSE [ok |-> TRUE,
              header |-> [Root |-> <<>>, KV |-> kv, Temp |-> <<>>, Height |-> height,
                          Hash |-> EmptyHash, aborted |-> FALSE],
              err |-> FALSE]

\* Deserialize: [ok, header, err], ok telling that the *Header returned is not
\* nil. insertOk is the outcome of root.Insert on the rebuilt tree.
Deserialize(buffer, height, insertOk) ==
    LET d == GobDecode(buffer)
        kv == d.kv
        root == ApplyTemp(<<>>, [i \in 1..Cardinality(DOMAIN kv) |->
                                   [Key |-> SetToSeq(DOMAIN kv)[i],
                                    NewValue |-> kv[SetToSeq(DOMAIN kv)[i]]]])
    IN  IF d.err THEN [ok |-> FALSE, header |-> <<>>, err |-> TRUE]
        ELSE IF DOMAIN kv # {} /\ ~insertOk THEN [ok |-> FALSE, header |-> <<>>, err |-> FALSE]
        ELSE [ok |-> TRUE,
              header |-> [Root |-> root, KV |-> kv, Temp |-> <<>>, Height |-> height,
                          Hash |-> EmptyHash, aborted |-> FALSE],
              err |-> FALSE]

\* ------------------------------------------------- helpers of the interpreter
Min(a, b) == IF a < b THEN a ELSE b

\* strings.ToLower on ASCII byte codes.
ToLower(s) == [i \in 1..Len(s) |-> IF s[i] >= 65 /\ s[i] <= 90 THEN s[i] + 32 ELSE s[i]]

\* The address decoder: a fixed injective map from an address string to the
\* canonical wallet bytes, one slot wide.
decodeBitcoinAddress(addr) ==
    [i \in 1..ValueSize |-> IF i <= Len(addr) THEN (addr[i] + 100 * i) % 256 ELSE i]

\* encoding/hex on hex strings (sequences of nibbles).
HexDecodeString(s) == [i \in 1..(Len(s) \div 2) |-> 16 * s[2 * i - 1] + s[2 * i]]
HexEncodeToString(b) ==
    [i \in 1..(2 * Len(b)) |-> IF i % 2 = 1 THEN b[(i + 1) \div 2] \div 16
                                             ELSE b[i \div 2] % 16]

\* A decimal string of a payload is [valid, frac, val]: whether it is a
\* well-formed positive decimal, its number of fractional digits, and its
\* value in 18-decimal fixed point.
isPositiveNumberWithDot(s) == s.valid
\* -1 stands for the error return.
getNumberExtendedTo18Decimals(s, decimals) ==
    IF decimals > 18 \/ s.frac > decimals \/ s.val >= Modulus THEN -1 ELSE s.val
\* The "dec" string of a payload is its integer value, or -1 when it is not
\* a well-formed non-negative integer.
isPositiveNumber(d) == d >= 0

getLimit == UpperLimit

JsHas(js, f) == f \in DOMAIN js
JsGet(js, f) == IF f \in DOMAIN js THEN js[f] ELSE ""

\* hex.DecodeString(contentType), then strings.Split(contentType, ";")[0].
\* Content types are the strings of ContentTypes; the table gives the result
\* of both steps.
ContentTypes == {"", "application/json", "text/plain;charset=utf-8",
                 "746578742f706c61696e", "image/png"}
NormalizeContentType(ct) ==
    CASE ct = "text/plain;charset=utf-8" -> "text/plain"
      [] ct = "746578742f706c61696e" -> "text/plain"
      [] OTHER -> ct

GetTickStatus(tick) ==
    [keyExists |-> GetHash(Exists, <<>>, tick),
     keyRemainingSupply |-> GetHash(RemainingSupply, <<>>, tick),
     keyMaxSupply |-> GetHash(MaxSupply, <<>>, tick),
     keyLimitPerMint |-> GetHash(LimitPerMint, <<>>, tick),
     keyDecimals |-> GetHash(Decimals, <<>>, tick)]

\* --------------------------------------------------------- state mutations
deployInscribe(h, tick, maxSupply, decimals, limitPerMint) ==
    LET k == GetTickStatus(tick)
        h1 == Insert(h, k.keyExists, convertIntToByte(0))
        h2 == Insert(h1, k.keyRemainingSupply, convertIntToByte(maxSupply))
        h3 == Insert(h2, k.keyMaxSupply, convertIntToByte(maxSupply))
        h4 == Insert(h3, k.keyLimitPerMint, convertIntToByte(limitPerMint))
    IN  Insert(h4, k.keyDecimals, convertIntToByte(decimals))

\* mintInscribe with the wallet-keyed available balance left at its previous
\* value: the variant C7_BalanceConsistency must tell apart from the code.
mintInscribe_StaleWallet(h, newPkscript, newAddr0, tick, amount) ==
    LET newAddr == decodeBitcoinAddress(newAddr0)
        availableKeyPk == GetHash(AvailableBalancePkscript, newPkscript, tick)
        overallKeyPk == GetHash(OverallBalancePkscript, newPkscript, tick)
        prevAvailableBalance == GetValueOrZero(h, availableKeyPk)
        prevOverallBalance == GetValueOrZero(h, overallKeyPk)
        newAvailableBalance == U256Add(prevAvailableBalance, amount)
        newOverallBalance == U256Add(prevOverallBalance, amount)
        h1 == Insert(h, availableKeyPk, convertIntToByte(newAvailableBalance))
        h2 == Insert(h1, overallKeyPk, convertIntToByte(newOverallBalance))
        h3 == Insert(h2, GetHash(AvailableBalance, newAddr, tick),
                     convertIntToByte(prevAvailableBalance))
        h4 == Insert(h3, GetHash(OverallBalance, newAddr, tick),
                     convertIntToByte(newOverallBalance))
        keyRemainingSupply == GetTickStatus(tick).keyRemainingSupply
        prevRemainingSupply == Get(h4, keyRemainingSupply)
        newRemainingSupply == U256Sub(convertByteToInt(prevRemainingSupply), amount)
    IN  Insert(h4, keyRemainingSupply, convertIntToByte(newRemainingSupply))

mintInscribe(h, newPkscript, newAddr0, tick, amount) ==
    LET newAddr == decodeBitcoinAddress(newAddr0)
        availableKeyPk == GetHash(AvailableBalancePkscript, newPkscript, tick)
        overallKeyPk == GetHash(OverallBalancePkscript, newPkscript, tick)
        prevAvailableBalance == GetValueOrZero(h, availableKeyPk)
        prevOverallBalance == GetValueOrZero(h, overallKeyPk)
        newAvailableBalance == U256Add(prevAvailableBalance, amount)
        newOverallBalance == U256Add(prevOverallBalance, amount)
        h1 == Insert(h, availableKeyPk, convertIntToByte(newAvailableBalance))
        h2 == Insert(h1, overallKeyPk, convertIntToByte(newOverallBalance))
        h3 == Insert(h2, GetHash(AvailableBalance, newAddr, tick),
                     convertIntToByte(newAvailableBalance))
        h4 == Insert(h3, GetHash(OverallBalance, newAddr, tick),
                     convertIntToByte(newOverallBalance))
        keyRemainingSupply == GetTickStatus(tick).keyRemainingSupply
        prevRemainingSupply == Get(h4, keyRemainingSupply)
        newRemainingSupply == U256Sub(convertByteToInt(prevRemainingSupply), amount)
    IN  Insert(h4, keyRemainingSupply, convertIntToByte(newRemainingSupply))

saveSourceWalletAndPkscript(h, inscrID, sourceAddr, pkScript0) ==
    LET h1 == Insert(h, GetEventHash(TransferInscribeSourceWallet, inscrID), sourceAddr)
        length == Len(pkScript0)
        prefix == <<length % 256>>
        pkScript == IF Len(pkScript0) % 2 = 1 THEN Append(pkScript0, 0) ELSE pkScript0
        encodedPkscript == prefix \o HexDecodeString(pkScript)
        b1 == padTo32Bytes(SubSeq(encodedPkscript, 1, Min(Len(encodedPkscript), ValueSize)))
        h2 == Insert(h1, GetEventHash(TransferInscribeSourcePkscript1, inscrID), b1)
    IN  IF Len(encodedPkscript) > ValueSize
        THEN Insert(h2, GetEventHash(TransferInscribeSourcePkscript2, inscrID),
                    padTo32Bytes(SubSeq(encodedPkscript, ValueSize + 1,
                                        Min(Len(encodedPkscript), 2 * ValueSize))))
        ELSE h2

\* [addr, pkscript, panics]: panics when b[0] or the slice [:length] is out
\* of range.
getSourceWalletAndPkscript(h, inscrID) ==
    LET sourceAddr == Get(h, GetEventHash(TransferInscribeSourceWallet, inscrID))
        b1 == Get(h, GetEventHash(TransferInscribeSourcePkscript1, inscrID))
        b2 == Get(h, GetEventHash(TransferInscribeSourcePkscript2, inscrID))
        b == b1 \o b2
    IN  IF Len(b) = 0 \/ b[1] > 2 * (Len(b) - 1)
        THEN [addr |-> sourceAddr, pkscript |-> <<>>, panics |-> TRUE]
        ELSE [addr |-> sourceAddr,
              pkscript |-> SubSeq(HexEncodeToString(Tail(b)), 1, b[1]),
              panics |-> FALSE]

transferInscribe(h, inscrID, sourcePkScript, sourceAddr0, tick, amount, availableBalance) ==
    LET sourceAddr == decodeBitcoinAddress(sourceAddr0)
        newAvailableBalance == U256Sub(availableBalance, amount)
        h1 == Insert(h, GetHash(AvailableBalance, sourceAddr, tick),
                     convertIntToByte(newAvailableBalance))
        h2 == Insert(h1, GetHash(AvailableBalancePkscript, sourcePkScript, tick),
                     convertIntToByte(newAvailableBalance))
        h3 == saveSourceWalletAndPkscript(h2, inscrID, sourceAddr, sourcePkScript)
        eventCntKey == GetEventHash(TransferInscribeCount, inscrID)
        newEventCnt == U256Add(GetValueOrZero(h3, eventCntKey), 1)
    IN  Insert(h3, eventCntKey, convertIntToByte(newEventCnt))

isUsedOrInvalid(h, inscrID) ==
    LET transferInscribeCnt == GetValueOrZero(h, GetEventHash(TransferInscribeCount, inscrID))
        transferTransferCnt == GetValueOrZero(h, GetEventHash(TransferTransferCount, inscrID))
    IN  transferInscribeCnt # 1 \/ transferTransferCnt # 0

\* transferTransferSpendToFee that leaves the available balance where the
\* inscribe put it: the variant C12_FeeSpendRestores must tell apart from the
\* code.
transferTransferSpendToFee_NoRestore(h, inscrID, tick, amount) ==
    LET src == getSourceWalletAndPkscript(h, inscrID)
        availableKey == GetHash(AvailableBalance, src.addr, tick)
        lastAvailableBalance == GetValueOrZero(h, availableKey)
        newAvailableBalance == lastAvailableBalance
        h1 == Insert(h, availableKey, convertIntToByte(newAvailableBalance))
        h2 == Insert(h1, GetHash(AvailableBalancePkscript, src.pkscript, tick),
                     convertIntToByte(newAvailableBalance))
        eventCntKey == GetEventHash(TransferTransferCount, inscrID)
        newTransferTransferCnt == U256Add(GetValueOrZero(h2, eventCntKey), 1)
    IN  IF src.panics THEN [h EXCEPT !.aborted = TRUE]
        ELSE Insert(h2, eventCntKey, convertIntToByte(newTransferTransferCnt))

transferTransferSpendToFee(h, inscrID, tick, amount) ==
    LET src == getSourceWalletAndPkscript(h, inscrID)
        availableKey == GetHash(AvailableBalance, src.addr, tick)
        lastAvailableBalance == GetValueOrZero(h, availableKey)
        newAvailableBalance == U256Add(lastAvailableBalance, amount)
        h1 == Insert(h, availableKey, convertIntToByte(newAvailableBalance))
        h2 == Insert(h1, GetHash(AvailableBalancePkscript, src.pkscript, tick),
                     convertIntToByte(newAvailableBalance))
        eventCntKey == GetEventHash(TransferTransferCount, inscrID)
        newTransferTransferCnt == U256Add(GetValueOrZero(h2, eventCntKey), 1)
    IN  IF src.panics THEN [h EXCEPT !.aborted = TRUE]
        ELSE Insert(h2, eventCntKey, convertIntToByte(newTransferTransferCnt))

\* transferTransferNormal that credits the destination without debiting the
\* source: the variant C11_TransferHappyPath must tell apart from the code.
transferTransferNormal_NoDebit(h, inscrID, spentPkScript, spentAddr0, tick, amount) ==
    LET spentAddr == decodeBitcoinAddress(spentAddr0)
        src == getSourceWalletAndPkscript(h, inscrID)
        spentAvailableKey == GetHash(AvailableBalance, spentAddr, tick)
        spentOverallKey == GetHash(OverallBalance, spentAddr, tick)
        newSpentAvailableBalance == U256Add(GetValueOrZero(h, spentAvailableKey), amount)
        newSpentOverallBalance == U256Add(GetValueOrZero(h, spentOverallKey), amount)
        h3 == Insert(h, spentAvailableKey, convertIntToByte(newSpentAvailableBalance))
        h4 == Insert(h3, spentOverallKey, convertIntToByte(newSpentOverallBalance))
        h5 == Insert(h4, GetHash(AvailableBalancePkscript, spentPkScript, tick),
                     convertIntToByte(newSpentAvailableBalance))
        h6 == Insert(h5, GetHash(OverallBalancePkscript, spentPkScript, tick),
                     convertIntToByte(newSpentOverallBalance))
        eventCntKey == GetEventHash(TransferTransferCount, inscrID)
        newTransferTransferCnt == U256Add(GetValueOrZero(h6, eventCntKey), 1)
    IN  IF src.panics THEN [h EXCEPT !.aborted = TRUE]
        ELSE Insert(h6, eventCntKey, convertIntToByte(newTransferTransferCnt))

\* transferTransferNormal with the spend counter advanced by the amount moved
\* instead of by one: the variant C10_Counters must tell apart from the code.
transferTransferNormal_CountsAmount(h, inscrID, spentPkScript, spentAddr0, tick, amount) ==
    LET spentAddr == decodeBitcoinAddress(spentAddr0)
        src == getSourceWalletAndPkscript(h, inscrID)
        sourceOverallKey == GetHash(OverallBalance, src.addr, tick)
        newSourceOverallBalance == U256Sub(GetValueOrZero(h, sourceOverallKey), amount)
        h1 == Insert(h, sourceOverallKey, convertIntToByte(newSourceOverallBalance))
        h2 == Insert(h1, GetHash(OverallBalancePkscript, src.pkscript, tick),
                     convertIntToByte(newSourceOverallBalance))
        spentAvailableKey == GetHash(AvailableBalance, spentAddr, tick)
        spentOverallKey == GetHash(OverallBalance, spentAddr, tick)
        newSpentAvailableBalance == U256Add(GetValueOrZero(h2, spentAvailableKey), amount)
        newSpentOverallBalance == U256Add(GetValueOrZero(h2, spentOverallKey), amount)
        h3 == Insert(h2, spentAvailableKey, convertIntToByte(newSpentAvailableBalance))
        h4 == Insert(h3, spentOverallKey, convertIntToByte(newSpentOverallBalance))
        h5 == Insert(h4, GetHash(AvailableBalancePkscript, spentPkScript, tick),
                     convertIntToByte(newSpentAvailableBalance))
        h6 == Insert(h5, GetHash(OverallBalancePkscript, spentPkScript, tick),
                     convertIntToByte(newSpentOverallBalance))
        eventCntKey == GetEventHash(TransferTransferCount, inscrID)
        newTransferTransferCnt == U256Add(GetValueOrZero(h6, eventCntKey), amount)
    IN  IF src.panics THEN [h EXCEPT !.aborted = TRUE]
        ELSE Insert(h6, eventCntKey, convertIntToByte(newTransferTransferCnt))

transferTransferNormal(h, inscrID, spentPkScript, spentAddr0, tick, amount) ==
    LET spentAddr == decodeBitcoinAddress(spentAddr0)
        src == getSourceWalletAndPkscript(h, inscrID)
        sourceOverallKey == GetHash(OverallBalance, src.addr, tick)
        newSourceOverallBalance == U256Sub(GetValueOrZero(h, sourceOverallKey), amount)
        h1 == Insert(h, sourceOverallKey, convertIntToByte(newSourceOverallBalance))
        h2 == Insert(h1, GetHash(OverallBalancePkscript, src.pkscript, tick),
                     convertIntToByte(newSourceOverallBalance))
        spentAvailableKey == GetHash(AvailableBalance, spentAddr, tick)
        spentOverallKey == GetHash(OverallBalance, spentAddr, tick)
        newSpentAvailableBalance == U256Add(GetValueOrZero(h2, spentAvailableKey), amount)
        newSpentOverallBalance == U256Add(GetValueOrZero(h2, spentOverallKey), amount)
        h3 == Insert(h2, spentAvailableKey, convertIntToByte(newSpentAvailableBalance))
        h4 == Insert(h3, spentOverallKey, convertIntToByte(newSpentOverallBalance))
        h5 == Insert(h4, GetHash(AvailableBalancePkscript, spentPkScript, tick),
                     convertIntToByte(newSpentAvailableBalance))
        h6 == Insert(h5, GetHash(OverallBalancePkscript, spentPkScript, tick),
                     convertIntToByte(newSpentOverallBalance))
        eventCntKey == GetEventHash(TransferTransferCount, inscrID)
        newTransferTransferCnt == U256Add(GetValueOrZero(h6, eventCntKey), 1)
    IN  IF src.panics THEN [h EXCEPT !.aborted = TRUE]
        ELSE Insert(h6, eventCntKey, convertIntToByte(newTransferTransferCnt))

\* ------------------------------------------------------------------- Exec
\* The loop of Exec threads st = [h, ops]: the header, and the record of the
\* mutations applied so far in this call, one entry per record that was not
\* skipped: [kind, id, amt, lim, dec, wrap, effect], wrap telling whether the
\* subtraction the mutation performs had a subtrahend above its minuend, and
\* effect (of a mint or a spend) whether it left some key with another value
\* than the records before it.
Effective(h, key) ==
    LET idx == {i \in 1..Len(h.Temp) : h.Temp[i].Key = key}
    IN  IF idx = {} THEN get(h, key)
        ELSE h.Temp[CHOOSE i \in idx : \A j \in idx : j <= i].NewValue

HasEffect(h, h2) ==
    \E i \in (Len(h.Temp) + 1)..Len(h2.Temp) :
        Effective(h2, h2.Temp[i].Key) # Effective(h, h2.Temp[i].Key)

Applied(st, h2, kind, id, amt, lim, dec, wrap) ==
    [h |-> h2,
     hashed |-> st.hashed,
     ops |-> Append(st.ops, [kind |-> kind, id |-> id, amt |-> amt,
                             lim |-> lim, dec |-> dec, wrap |-> wrap,
                             effect |-> IF kind \in {"mint", "fee", "spend"}
                                        THEN HasEffect(st.h, h2) ELSE TRUE])]

\* st after a key was derived for tick: GetHash panics on a tick that is
\* neither 4 nor 5 bytes long. hashed collects the ticks handed to GetHash.
Hashed(st, tick) ==
    [st EXCEPT !.hashed = @ \cup {tick},
               !.h.aborted = @ \/ GetHashPanics(tick)]

ExecDeploy(st0, transfer, js, tick) ==
    LET st == Hashed(st0, tick)
        h == st.h
        upperLimit == getLimit
        hasDec == JsHas(js, "dec")
        decimals == IF hasDec THEN js["dec"] ELSE 18
        maxSupply == getNumberExtendedTo18Decimals(js["max"], decimals)
        hasLim == JsHas(js, "lim")
        limitPerMint == IF hasLim THEN getNumberExtendedTo18Decimals(js["lim"], decimals)
                        ELSE maxSupply
    IN  IF ~JsHas(js, "max") THEN st0
        ELSE IF h.aborted THEN st
        ELSE IF Len(Get(h, GetTickStatus(tick).keyExists)) # 0 THEN st
        ELSE IF hasDec /\ ~isPositiveNumber(js["dec"]) THEN st
        ELSE IF decimals > 18 THEN st
        ELSE IF ~isPositiveNumberWithDot(js["max"]) THEN st
        ELSE IF maxSupply = -1 THEN st
        ELSE IF maxSupply > upperLimit \/ maxSupply = 0 THEN st
        ELSE IF hasLim /\ ~isPositiveNumberWithDot(js["lim"]) THEN st
        ELSE IF hasLim /\ limitPerMint = -1 THEN st
        ELSE IF hasLim /\ (limitPerMint > upperLimit \/ limitPerMint = 0) THEN st
        ELSE Applied(st, deployInscribe(h, tick, maxSupply, decimals, limitPerMint),
                     "deploy", transfer.InscriptionID, maxSupply, limitPerMint, decimals, FALSE)

\* ExecMint without the check against limit_per_mint.
ExecMint_NoLimitCheck(st0, transfer, js, tick) ==
    LET st == Hashed(st0, tick)
        h == st.h
        upperLimit == getLimit
        k == GetTickStatus(tick)
        remainingSupply == convertByteToInt(Get(h, k.keyRemainingSupply))
        limitPerMint == convertByteToInt(Get(h, k.keyLimitPerMint))
        decimals == convertByteToInt(Get(h, k.keyDecimals))
        parsed == getNumberExtendedTo18Decimals(js["amt"], decimals)
        amount == IF parsed > remainingSupply THEN remainingSupply ELSE parsed
    IN  IF ~JsHas(js, "amt") THEN st0
        ELSE IF h.aborted THEN st
        ELSE IF Len(Get(h, k.keyExists)) = 0 THEN st
        ELSE IF ~isPositiveNumberWithDot(js["amt"]) THEN st
        ELSE IF parsed = -1 THEN st
        ELSE IF parsed > upperLimit \/ parsed = 0 THEN st
        ELSE IF remainingSupply = 0 THEN st
        ELSE Applied(st, mintInscribe(h, transfer.NewPkscript, transfer.NewWallet, tick, amount),
                     "mint", transfer.InscriptionID, amount, limitPerMint, decimals,
                     amount > convertByteToInt(Get(h, k.keyRemainingSupply)))

ExecMint(st0, transfer, js, tick) ==
    LET st == Hashed(st0, tick)
        h == st.h
        upperLimit == getLimit
        k == GetTickStatus(tick)
        remainingSupply == convertByteToInt(Get(h, k.keyRemainingSupply))
        limitPerMint == convertByteToInt(Get(h, k.keyLimitPerMint))
        decimals == convertByteToInt(Get(h, k.keyDecimals))
        parsed == getNumberExtendedTo18Decimals(js["amt"], decimals)
        amount == IF parsed > remainingSupply THEN remainingSupply ELSE parsed
    IN  IF ~JsHas(js, "amt") THEN st0
        ELSE IF h.aborted THEN st
        ELSE IF Len(Get(h, k.keyExists)) = 0 THEN st
        ELSE IF ~isPositiveNumberWithDot(js["amt"]) THEN st
        ELSE IF parsed = -1 THEN st
        ELSE IF parsed > upperLimit \/ parsed = 0 THEN st
        ELSE IF remainingSupply = 0 THEN st
        ELSE IF parsed > limitPerMint THEN st
        ELSE Applied(st, mintInscribe(h, transfer.NewPkscript, transfer.NewWallet, tick, amount),
                     "mint", transfer.InscriptionID, amount, limitPerMint, decimals,
                     amount > convertByteToInt(Get(h, k.keyRemainingSupply)))

ExecTransfer(st0, transfer, js, tick) ==
    LET st == Hashed(st0, tick)
        h == st.h
        upperLimit == getLimit
        k == GetTickStatus(tick)
        deicmals == convertByteToInt(Get(h, k.keyDecimals))
        amount == getNumberExtendedTo18Decimals(js["amt"], deicmals)
        availableBalance ==
            GetValueOrZero(h, GetHash(AvailableBalancePkscript, transfer.NewPkscript, tick))
        src == getSourceWalletAndPkscript(h, transfer.InscriptionID)
    IN  IF ~JsHas(js, "amt") THEN st0
        ELSE IF h.aborted THEN st
        ELSE IF Len(Get(h, k.keyExists)) = 0 THEN st
        ELSE IF ~isPositiveNumberWithDot(js["amt"]) THEN st
        ELSE IF amount = -1 THEN st
        ELSE IF amount > upperLimit \/ amount = 0 THEN st
        ELSE IF transfer.OldSatpoint = <<>>
        THEN IF availableBalance < amount THEN st
             ELSE Applied(st, transferInscribe(h, transfer.InscriptionID, transfer.NewPkscript,
                                               transfer.NewWallet, tick, amount, availableBalance),
                          "inscribe", transfer.InscriptionID, amount, 0, 0,
                          amount > availableBalance)
        ELSE IF isUsedOrInvalid(h, transfer.InscriptionID) THEN st
        ELSE IF transfer.SentAsFee
        THEN Applied(st, transferTransferSpendToFee(h, transfer.InscriptionID, tick, amount),
                     "fee", transfer.InscriptionID, amount, 0, 0, FALSE)
        ELSE Applied(st, transferTransferNormal(h, transfer.InscriptionID, transfer.NewPkscript,
                                                transfer.NewWallet, tick, amount),
                     "spend", transfer.InscriptionID, amount, 0, 0,
                     amount > GetValueOrZero(h, GetHash(OverallBalance, src.addr, tick)))

\* ExecRecord without the check of the tick length: the variant
\* C22_FatalUnreachable must tell apart from the code.
ExecRecord_NoTickCheck(st, transfer) ==
    LET js == transfer.Content
        contentType == NormalizeContentType(transfer.ContentType)
        tick == ToLower(js["tick"])
        op == JsGet(js, "op")
    IN  IF transfer.SentAsFee /\ transfer.OldSatpoint = <<>> THEN st
        ELSE IF transfer.ContentType = "" THEN st
        ELSE IF contentType # "application/json" /\ contentType # "text/plain" THEN st
        ELSE IF ~JsHas(js, "tick") THEN st
        ELSE IF ~JsHas(js, "op") THEN st
        ELSE IF op = "deploy" /\ transfer.OldSatpoint = <<>> THEN ExecDeploy(st, transfer, js, tick)
        ELSE IF op = "mint" /\ transfer.OldSatpoint = <<>> THEN ExecMint(st, transfer, js, tick)
        ELSE IF op = "transfer" THEN ExecTransfer(st, transfer, js, tick)
        ELSE st

\* One iteration of the loop of Exec; a `continue` returns st unchanged.
ExecRecord(st, transfer) ==
    LET js == transfer.Content
        contentType == NormalizeContentType(transfer.ContentType)
        tick == ToLower(js["tick"])
        op == JsGet(js, "op")
    IN  IF transfer.SentAsFee /\ transfer.OldSatpoint = <<>> THEN st
        ELSE IF transfer.ContentType = "" THEN st
        ELSE IF contentType # "application/json" /\ contentType # "text/plain" THEN st
        ELSE IF ~JsHas(js, "tick") THEN st
        ELSE IF ~JsHas(js, "op") THEN st
        ELSE IF Len(tick) # 4 THEN st
        ELSE IF op = "deploy" /\ transfer.OldSatpoint = <<>> THEN ExecDeploy(st, transfer, js, tick)
        ELSE IF op = "mint" /\ transfer.OldSatpoint = <<>> THEN ExecMint(st, transfer, js, tick)
        ELSE IF op = "transfer" THEN ExecTransfer(st, transfer, js, tick)
        ELSE st

RECURSIVE ExecLoop(_, _)
ExecLoop(st, ordTransfer) ==
    IF ordTransfer = <<>> \/ st.h.aborted THEN st
    ELSE ExecLoop(ExecRecord(st, Head(ordTransfer)), Tail(ordTransfer))

Exec(h, ordTransfer) ==
    IF Len(ordTransfer) = 0 THEN [h |-> h, ops |-> <<>>, hashed |-> {}]
    ELSE ExecLoop([h |-> h, ops |-> <<>>, hashed |-> {}], ordTransfer)

\* ------------------------------------------------------------------ inputs
\* Ticks: "ordi", "ORDI" and the five-byte "ordis".
TickOrdi == <<111, 114, 100, 105>>
TickOrdiUpper == <<79, 82, 68, 73>>
TickOrdis == <<111, 114, 100, 105, 115>>

\* Holders: an address string and the pkscript (hex string) it belongs to.
\* The second pkscript has an odd number of nibbles and takes two slots.
HolderA == [wallet |-> <<65>>, pkscript |-> <<10, 11>>]
HolderB == [wallet |-> <<66>>, pkscript |-> <<12, 13, 14>>]
Holders == {HolderA, HolderB}

Num(v) == [valid |-> TRUE, frac |-> 0, val |-> v]
Frac(v) == [valid |-> TRUE, frac |-> 1, val |-> v]
NotANumber == [valid |-> FALSE, frac |-> 0, val |-> 0]

\* An inscription's content type and content never change, so every record
\* of one inscription id carries the same payload.
Inscriptions ==
    {[id |-> <<1>>, ContentType |-> "application/json",
      Content |-> [op |-> "deploy", tick |-> TickOrdi, max |-> Num(UpperLimit), lim |-> Num(2)]],
     [id |-> <<2>>, ContentType |-> "text/plain;charset=utf-8",
      Content |-> [op |-> "deploy", tick |-> TickOrdiUpper, max |-> Num(1), dec |-> 0]],
     [id |-> <<3>>, ContentType |-> "application/json",
      Content |-> [op |-> "mint", tick |-> TickOrdi, amt |-> Num(2)]],
     [id |-> <<4>>, ContentType |-> "746578742f706c61696e",
      Content |-> [op |-> "mint", tick |-> TickOrdiUpper, amt |-> Num(UpperLimit)]],
     [id |-> <<6>>, ContentType |-> "application/json",
      Content |-> [op |-> "transfer", tick |-> TickOrdi, amt |-> Num(1)]],
     [id |-> <<7>>, ContentType |-> "text/plain;charset=utf-8",
      Content |-> [op |-> "transfer", tick |-> TickOrdi, amt |-> Num(2)]]}

TransferIds == {<<6>>, <<7>>}

Inscription(id) == CHOOSE ins \in Inscriptions : ins.id = id

Satpoint == <<1>>

OrdTransfer(id, oldSatpoint, holder, sentAsFee) ==
    [ID |-> 0, InscriptionID |-> id, OldSatpoint |-> oldSatpoint,
     NewPkscript |-> holder.pkscript, NewWallet |-> holder.wallet,
     SentAsFee |-> sentAsFee, ContentType |-> Inscription(id).ContentType,
     Content |-> Inscription(id).Content]

\* The records a block may carry: inscriptions being created (OldSatpoint
\* empty) and transfer inscriptions being moved, to a holder or as fee.
Records ==
    {OrdTransfer(<<1>>, <<>>, HolderA, FALSE),
     OrdTransfer(<<2>>, <<>>, HolderA, FALSE),
     OrdTransfer(<<3>>, <<>>, HolderA, FALSE),
     OrdTransfer(<<3>>, <<>>, HolderB, FALSE),
     OrdTransfer(<<6>>, <<>>, HolderA, FALSE),
     OrdTransfer(<<7>>, <<>>, HolderA, FALSE),
     OrdTransfer(<<6>>, Satpoint, HolderA, FALSE),
     OrdTransfer(<<6>>, Satpoint, HolderB, FALSE),
     OrdTransfer(<<6>>, Satpoint, HolderB, TRUE),
     OrdTransfer(<<7>>, Satpoint, HolderB, FALSE)}

Batches == UNION {[1..n -> Records] : n \in 0..MaxBatch}

\* Records that Exec has to skip, one per validation: each is a record of
\* holder A that differs from an acceptable one in the field named beside it.
TickPepe == <<112, 101, 112, 101>>

Probe(contentType, content, oldSatpoint, sentAsFee) ==
    [ID |-> 0, InscriptionID |-> <<9>>, OldSatpoint |-> oldSatpoint,
     NewPkscript |-> HolderA.pkscript, NewWallet |-> HolderA.wallet,
     SentAsFee |-> sentAsFee, ContentType |-> contentType, Content |-> content]

DeployPepe == [op |-> "deploy", tick |-> TickPepe, max |-> Num(2), lim |-> Num(1), dec |-> 0]
MintOrdi == [op |-> "mint", tick |-> TickOrdi, amt |-> Num(1)]
TransferOrdi == [op |-> "transfer", tick |-> TickOrdi, amt |-> Num(1)]

SkipProbes ==
    {Probe("application/json", MintOrdi, <<>>, TRUE),                  \* inscribed as fee
     Probe("", MintOrdi, <<>>, FALSE),                                 \* no content type
     Probe("image/png", MintOrdi, <<>>, FALSE),                        \* other content type
     Probe("application/json", [op |-> "mint", amt |-> Num(1)], <<>>, FALSE),       \* no tick
     Probe("application/json", [tick |-> TickOrdi, amt |-> Num(1)], <<>>, FALSE),   \* no op
     Probe("application/json", [MintOrdi EXCEPT !.tick = TickOrdis], <<>>, FALSE),  \* five-byte tick
     Probe("application/json", DeployPepe, Satpoint, FALSE),           \* deploy being moved
     Probe("application/json", MintOrdi, Satpoint, FALSE),             \* mint being moved
     Probe("application/json", [op |-> "deploy", tick |-> TickPepe], <<>>, FALSE),  \* no max
     Probe("application/json", [DeployPepe EXCEPT !.max = NotANumber], <<>>, FALSE),
     Probe("application/json", [DeployPepe EXCEPT !.max = Num(0)], <<>>, FALSE),
     Probe("application/json", [DeployPepe EXCEPT !.max = Num(UpperLimit + 1)], <<>>, FALSE),
     Probe("application/json", [DeployPepe EXCEPT !.max = Frac(2)], <<>>, FALSE),
     Probe("application/json", [DeployPepe EXCEPT !.dec = -1], <<>>, FALSE),
     Probe("application/json", [DeployPepe EXCEPT !.dec = 19], <<>>, FALSE),
     Probe("application/json", [DeployPepe EXCEPT !.lim = NotANumber], <<>>, FALSE),
     Probe("application/json", [DeployPepe EXCEPT !.lim = Num(0)], <<>>, FALSE),
     Probe("application/json", [DeployPepe EXCEPT !.lim = Num(UpperLimit + 1)], <<>>, FALSE),
     Probe("application/json", [op |-> "mint", tick |-> TickOrdi], <<>>, FALSE),    \* no amt
     Probe("application/json", [MintOrdi EXCEPT !.amt = NotANumber], <<>>, FALSE),
     Probe("application/json", [MintOrdi EXCEPT !.amt = Num(0)], <<>>, FALSE),
     Probe("application/json", [MintOrdi EXCEPT !.amt = Num(UpperLimit + 1)], <<>>, FALSE),
     Probe("application/json", [MintOrdi EXCEPT !.amt = Num(UpperLimit)], <<>>, FALSE),  \* above lim
     Probe("application/json", [MintOrdi EXCEPT !.tick = TickPepe], <<>>, FALSE),   \* undeployed
     Probe("application/json", [op |-> "transfer", tick |-> TickOrdi], <<>>, FALSE),
     Probe("application/json", [TransferOrdi EXCEPT !.amt = NotANumber], <<>>, FALSE),
     Probe("application/json", [TransferOrdi EXCEPT !.amt = Num(0)], <<>>, FALSE),
     Probe("application/json", [TransferOrdi EXCEPT !.amt = Num(UpperLimit + 1)], Satpoint, FALSE),
     Probe("application/json", [TransferOrdi EXCEPT !.tick = TickPepe], <<>>, FALSE),
     Probe("application/json", [TransferOrdi EXCEPT !.amt = Num(UpperLimit)], <<>>, FALSE),
     Probe("application/json", TransferOrdi, Satpoint, FALSE)}          \* never inscribed

\* ------------------------------------------------------------------- state
VARIABLES
    Root,        \* Header.Root: the authenticated tree, as a map
    KV,          \* Header.KV
    Temp,        \* Header.Temp.Elements
    Height,      \* Header.Height
    Hash,        \* Header.Hash
    aborted,     \* the process panicked
    pc,          \* the caller: "exec" before Exec, "page" before Paging, "failed"
    pagingErr,   \* whether the last Paging returned an error
    applied,     \* history: the kinds of the mutations of the batch being paged
    minted,      \* history: sum of the amounts of the mints that had an effect
    spends,      \* history: per transfer inscription, the spends that had an effect
    wrapped,     \* history: some applied subtraction wrapped around
    firstDeploy, \* history: <<max, lim, dec>> of the first deploy applied, else <<>>
    serialKV,    \* history: KV had the last batch been run one record per block
    call,        \* history: the last call made on the store, with its arguments
    hashed       \* history: the ticks Exec has handed to GetHash

vars == <<Root, KV, Temp, Height, Hash, aborted, pc, pagingErr,
          applied, minted, spends, wrapped, firstDeploy, serialKV, call, hashed>>

Header == [Root |-> Root, KV |-> KV, Temp |-> Temp, Height |-> Height,
           Hash |-> Hash, aborted |-> aborted]

RECURSIVE SerialExec(_, _)
\* The batch run one record per Exec call, with a Paging after each.
SerialExec(h, ordTransfer) ==
    IF ordTransfer = <<>> \/ h.aborted THEN h
    ELSE SerialExec(Paging(Exec(h, <<Head(ordTransfer)>>).h, FALSE, TRUE).h, Tail(ordTransfer))

RECURSIVE SumAmt(_, _)
SumAmt(ops, kind) ==
    IF ops = <<>> THEN 0
    ELSE (IF Head(ops).kind = kind /\ Head(ops).effect THEN Head(ops).amt ELSE 0)
         + SumAmt(Tail(ops), kind)

CountSpends(ops, id) ==
    Cardinality({i \in 1..Len(ops) :
                    ops[i].kind \in {"fee", "spend"} /\ ops[i].id = id /\ ops[i].effect})

FirstDeployOf(ops) ==
    LET idx == {i \in 1..Len(ops) : ops[i].kind = "deploy"}
    IN  IF idx = {} THEN <<>>
        ELSE LET i == CHOOSE j \in idx : \A l \in idx : j <= l
             IN  <<ops[i].amt, ops[i].lim, ops[i].dec>>

Init ==
    LET h == NewHeader(0, BlockHash(0))
    IN  /\ Root = h.Root
        /\ KV = h.KV
        /\ Temp = h.Temp
        /\ Height = h.Height
        /\ Hash = h.Hash
        /\ aborted = h.aborted
        /\ pc = "exec"
        /\ pagingErr = FALSE
        /\ applied = <<>>
        /\ minted = 0
        /\ spends = [id \in TransferIds |-> 0]
        /\ wrapped = FALSE
        /\ firstDeploy = <<>>
        /\ serialKV = <<>>
        /\ call = [op |-> "NewHeader"]
        /\ hashed = {}

\* The caller hands the records of the next block to Exec, while fewer than
\* maxHeight blocks have been processed.
ExecBlock(maxHeight, batches, trackSerial) ==
    /\ pc = "exec"
    /\ ~aborted
    /\ Height < maxHeight
    /\ \E ordTransfer \in batches :
         LET st == Exec(Header, ordTransfer)
         IN  /\ Temp' = st.h.Temp
             /\ aborted' = st.h.aborted
             /\ applied' = [i \in 1..Len(st.ops) |-> st.ops[i].kind]
             /\ minted' = minted + SumAmt(st.ops, "mint")
             /\ spends' = [id \in TransferIds |-> spends[id] + CountSpends(st.ops, id)]
             /\ wrapped' = (wrapped \/ \E i \in 1..Len(st.ops) : st.ops[i].wrap)
             /\ firstDeploy' = IF firstDeploy = <<>> THEN FirstDeployOf(st.ops) ELSE firstDeploy
             /\ serialKV' = IF trackSerial THEN SerialExec(Header, ordTransfer).KV ELSE serialKV
             /\ hashed' = hashed \cup st.hashed
             /\ call' = [op |-> "Exec", records |-> Len(ordTransfer),
                         headSkipped |-> ordTransfer # <<>>
                                         /\ Exec(Header, <<Head(ordTransfer)>>).ops = <<>>,
                         tickLens |-> {Len(ordTransfer[i].Content.tick) :
                                         i \in {j \in 1..Len(ordTransfer) :
                                                   JsHas(ordTransfer[j].Content, "tick")}}]
    /\ pc' = "page"
    /\ UNCHANGED <<Root, KV, Height, Hash, pagingErr>>

ExecStep == ExecBlock(MaxHeight, Batches, FALSE)

\* The caller pages the block. It asks for the block hash, except possibly
\* during the first CatchUp blocks; a failed Paging ends the run.
PagingStep ==
    /\ pc = "page"
    /\ ~aborted
    /\ \E queryHash \in {TRUE, Height >= CatchUp} :
       \E hashOk \in (IF queryHash THEN BOOLEAN ELSE {TRUE}) :
         LET res == Paging(Header, queryHash, hashOk)
         IN  /\ Root' = res.h.Root
             /\ KV' = res.h.KV
             /\ Temp' = res.h.Temp
             /\ Height' = res.h.Height
             /\ Hash' = res.h.Hash
             /\ pagingErr' = res.err
             /\ pc' = IF res.err THEN "failed" ELSE "exec"
             /\ call' = [op |-> "Paging", queryHash |-> queryHash, err |-> res.err]
    /\ applied' = <<>>
    /\ UNCHANGED <<aborted, minted, spends, wrapped, firstDeploy, serialKV, hashed>>

Next == ExecStep \/ PagingStep

Spec == Init /\ [][Next]_vars

\* The same program, with the history variable serialKV kept, over fewer blocks.
SerialHeight == 3
ExecStepSerial == ExecBlock(SerialHeight, Batches, TRUE)
NextSerial == ExecStepSerial \/ PagingStep
SpecSerial == Init /\ [][NextSerial]_vars

\* The same program over one more block, fed with the records of one deploy,
\* one holder's mint, and two transfer inscriptions of that holder.
DeepHeight == 5
DeepRecords ==
    {OrdTransfer(<<1>>, <<>>, HolderA, FALSE),
     OrdTransfer(<<3>>, <<>>, HolderA, FALSE),
     OrdTransfer(<<6>>, <<>>, HolderA, FALSE),
     OrdTransfer(<<7>>, <<>>, HolderA, FALSE),
     OrdTransfer(<<6>>, Satpoint, HolderB, FALSE),
     OrdTransfer(<<7>>, Satpoint, HolderB, FALSE)}
DeepBatches == UNION {[1..n -> DeepRecords] : n \in 0..MaxBatch}
ExecStepDeep == ExecBlock(DeepHeight, DeepBatches, FALSE)
NextDeep == ExecStepDeep \/ PagingStep
SpecDeep == Init /\ [][NextDeep]_vars

\* The same program fed with records that come close to the panics of
\* GetHash and getSourceWalletAndPkscript: ticks of three and of five bytes,
\* and spends of an inscription before and without its transfer inscription.
FatalHeight == 4
TickOrd == <<111, 114, 100>>
FatalRecords ==
    {OrdTransfer(<<1>>, <<>>, HolderA, FALSE),
     OrdTransfer(<<3>>, <<>>, HolderA, FALSE),
     OrdTransfer(<<6>>, <<>>, HolderA, FALSE),
     OrdTransfer(<<6>>, Satpoint, HolderB, FALSE),
     OrdTransfer(<<6>>, Satpoint, HolderB, TRUE),
     Probe("application/json", [MintOrdi EXCEPT !.tick = TickOrdis], <<>>, FALSE),
     Probe("application/json", [TransferOrdi EXCEPT !.tick = TickOrd], <<>>, FALSE),
     Probe("application/json", TransferOrdi, Satpoint, FALSE)}
FatalBatches == UNION {[1..n -> FatalRecords] : n \in 0..MaxBatch}
ExecStepFatal == ExecBlock(FatalHeight, FatalBatches, FALSE)
NextFatal == ExecStepFatal \/ PagingStep
SpecFatal == Init /\ [][NextFatal]_vars

\* The store driven directly: staged writes of every kind, pages, and restores
\* from a snapshot of the store itself.
StoreHeight == 2
MaxTemp == 2

Slot(b) == [i \in 1..ValueSize |-> IF i = ValueSize THEN b ELSE 0]
Blob(n) == [i \in 1..n |-> 4 + i]

\* The first and the last slot of one stem.
StoreKeys == {StoreKey(<<1>>, 0), StoreKey(<<1>>, NodeWidth - 1)}
\* A slot, and a value that is not ValueSize wide.
StoreValues == {Slot(1), <<7>>}
StoreInts == {NodeWidth + 1}
\* Blobs of zero, one and a half and two slots; the backing array of the
\* second ends with the blob or holds ValueSize - 1 more bytes.
StoreBlobs ==
    {[value |-> Blob(0), spare |-> <<>>],
     [value |-> Blob(ValueSize + 1), spare |-> <<>>],
     [value |-> Blob(ValueSize + 1), spare |-> [i \in 1..(ValueSize - 1) |-> 9]],
     [value |-> Blob(2 * ValueSize), spare |-> <<>>]}

\* The variables after a call that leaves the store as h2.
StoreCall(h2, c) ==
    /\ Root' = h2.Root
    /\ KV' = h2.KV
    /\ Temp' = h2.Temp
    /\ Height' = h2.Height
    /\ Hash' = h2.Hash
    /\ aborted' = h2.aborted
    /\ call' = c
    /\ UNCHANGED <<pagingErr, applied, minted, spends, wrapped, firstDeploy, serialKV, hashed>>

StoreReady ==
    /\ pc \in {"exec", "page"}
    /\ ~aborted
    /\ Height < StoreHeight
    /\ Len(Temp) < MaxTemp

InsertStep ==
    /\ StoreReady
    /\ \E key \in StoreKeys : \E value \in StoreValues :
         StoreCall(insert(Header, key, value),
                   [op |-> "insert", key |-> key, value |-> value])
    /\ pc' = "page"

InsertUInt256Step ==
    /\ StoreReady
    /\ \E key \in StoreKeys : \E n \in StoreInts :
         StoreCall(InsertUInt256(Header, key, n),
                   [op |-> "InsertUInt256", key |-> key, value |-> n])
    /\ pc' = "page"

InsertBytesStep ==
    /\ StoreReady
    /\ \E key \in StoreKeys : \E blob \in StoreBlobs :
         StoreCall(InsertBytes(Header, key, blob.value, blob.spare),
                   [op |-> "InsertBytes", key |-> key, value |-> blob.value])
    /\ pc' = "page"

\* Serialize the store, then Deserialize the buffer, whole or cut short, at
\* the store's height. A store that comes back replaces the current one.
RestoreStep ==
    /\ pc = "exec"
    /\ ~aborted
    /\ call.op # "Deserialize"
    /\ \E cut \in BOOLEAN : \E insertOk \in BOOLEAN :
         LET buffer == IF cut THEN Truncated(Serialize(Header).buffer)
                       ELSE Serialize(Header).buffer
             res == Deserialize(buffer, Height, insertOk)
         IN  StoreCall(IF res.ok THEN res.header ELSE Header,
                       [op |-> "Deserialize", cut |-> cut, insertOk |-> insertOk,
                        ok |-> res.ok, err |-> res.err])
    /\ pc' = "exec"

NextStore == InsertStep \/ InsertUInt256Step \/ InsertBytesStep \/ PagingStep \/ RestoreStep
SpecStore == Init /\ [][NextStore]_vars

\* ------------------------------------------------------- committed state
Tick == TickOrdi
Paged == pc = "exec"
Deployed == Len(get(Header, GetTickStatus(Tick).keyExists)) # 0
TickRemainingSupply == GetUInt256(Header, GetTickStatus(Tick).keyRemainingSupply)
TickMaxSupply == GetUInt256(Header, GetTickStatus(Tick).keyMaxSupply)
TickLimitPerMint == GetUInt256(Header, GetTickStatus(Tick).keyLimitPerMint)
TickDecimals == GetUInt256(Header, GetTickStatus(Tick).keyDecimals)

WalletAvailable(hd) == GetUInt256(Header, GetHash(AvailableBalance, decodeBitcoinAddress(hd.wallet), Tick))
WalletOverall(hd) == GetUInt256(Header, GetHash(OverallBalance, decodeBitcoinAddress(hd.wallet), Tick))
PkscriptAvailable(hd) == GetUInt256(Header, GetHash(AvailableBalancePkscript, hd.pkscript, Tick))
PkscriptOverall(hd) == GetUInt256(Header, GetHash(OverallBalancePkscript, hd.pkscript, Tick))
SumOverall == WalletOverall(HolderA) + WalletOverall(HolderB)

TransferTransferCnt(id) == GetUInt256(Header, GetEventHash(TransferTransferCount, id))
TransferInscribeCnt(id) == GetUInt256(Header, GetEventHash(TransferInscribeCount, id))

\* ------------------------------------------------------------------ claims

\* C1 (supply conservation): after every page, for the deployed tick,
\* max_supply - remaining_supply equals the sum of the amounts credited by
\* the mints that changed the state so far.
C1_SupplyConservation ==
    (Paged /\ Deployed) => TickMaxSupply - TickRemainingSupply = minted

\* C2 (single-spend): once a spend of a transfer inscription has been
\* applied, no later spend record of that inscription changes anything: at
\* most one spend per inscription id ever has an effect.
C2_SingleSpend == \A id \in TransferIds : spends[id] <= 1

\* C3 (non-negativity): no subtraction performed by mint, transfer-inscribe
\* or normal transfer-spend has a subtrahend larger than its minuend.
C3_NoUnderflow == ~wrapped

\* C4 (token conservation across transfers): paging a block whose only
\* mutation is one normal transfer-spend leaves the sum of the overall
\* balances of all holders unchanged, also when the destination is the source.
C4_TransferConserves ==
    [][(pc = "page" /\ applied = <<"spend">>) => SumOverall' = SumOverall]_vars

\* C5 (in-batch visibility): Exec over a batch followed by one page gives
\* the same key-value state as the same records run one per block.
C5_BatchEqualsSerial == Paged => KV = serialKV

\* C6 (deploy immutability): after every page the tick's max_supply,
\* limit_per_mint and decimals are those of the first deploy applied, and
\* remaining_supply is not above that deploy's max_supply.
C6_DeployImmutable ==
    (Paged /\ firstDeploy # <<>>) =>
        /\ <<TickMaxSupply, TickLimitPerMint, TickDecimals>> = firstDeploy
        /\ TickRemainingSupply <= firstDeploy[1]

\* C7 (balance consistency): for every holder the wallet-keyed and the
\* pkscript-keyed available (and overall) balances are equal, both in the
\* committed state and in the state the staged writes lead to.
StagedUInt256(key) == BigEndian(Effective(Header, key))
C7_BalanceConsistency ==
    \A hd \in Holders :
        LET w == decodeBitcoinAddress(hd.wallet)
        IN  /\ WalletAvailable(hd) = PkscriptAvailable(hd)
            /\ WalletOverall(hd) = PkscriptOverall(hd)
            /\ StagedUInt256(GetHash(AvailableBalance, w, Tick))
                 = StagedUInt256(GetHash(AvailableBalancePkscript, hd.pkscript, Tick))
            /\ StagedUInt256(GetHash(OverallBalance, w, Tick))
                 = StagedUInt256(GetHash(OverallBalancePkscript, hd.pkscript, Tick))

\* C7 witness: a mint, a transfer-inscribe and a normal spend to the other
\* holder have been paged, and both holders own tokens.
C7_Witness ==
    /\ Paged
    /\ \E id \in TransferIds : TransferTransferCnt(id) = 1
    /\ WalletOverall(HolderB) > 0 /\ PkscriptOverall(HolderB) > 0
    /\ WalletOverall(HolderA) > 0 /\ WalletAvailable(HolderA) < WalletOverall(HolderA)

\* C8 (mint limit): the total credited by the mints of the tick that changed
\* the state never exceeds its max_supply.
C8_MintWithinSupply == (Paged /\ Deployed) => minted <= TickMaxSupply

\* C9 (available <= overall): in every state, for every holder, the
\* available balance is at most the overall balance.
C9_AvailableLeOverall ==
    \A hd \in Holders :
        /\ WalletAvailable(hd) <= WalletOverall(hd)
        /\ PkscriptAvailable(hd) <= PkscriptOverall(hd)

\* C10 (event counters): transfer_transfer_count of every inscription id is
\* always 0 or 1, and neither counter of any inscription id ever decreases.
C10_Counters ==
    /\ [](\A id \in TransferIds : TransferTransferCnt(id) \in {0, 1})
    /\ [][\A id \in TransferIds :
            /\ TransferTransferCnt(id)' >= TransferTransferCnt(id)
            /\ TransferInscribeCnt(id)' >= TransferInscribeCnt(id)]_vars

\* C10 witness: an inscription was spent, and another record of the same
\* block tried to spend it again.
C10_Witness ==
    \E id \in TransferIds :
        /\ Paged
        /\ TransferTransferCnt(id) = 1
        /\ spends[id] = 2

\* The balances of a holder in a store: wallet-keyed and pkscript-keyed.
BalanceOf(h, hd) ==
    [available |-> GetUInt256(h, GetHash(AvailableBalance, decodeBitcoinAddress(hd.wallet), Tick)),
     overall |-> GetUInt256(h, GetHash(OverallBalance, decodeBitcoinAddress(hd.wallet), Tick)),
     pkAvailable |-> GetUInt256(h, GetHash(AvailableBalancePkscript, hd.pkscript, Tick)),
     pkOverall |-> GetUInt256(h, GetHash(OverallBalancePkscript, hd.pkscript, Tick))]

Balance(available, overall) ==
    [available |-> available, overall |-> overall,
     pkAvailable |-> available, pkOverall |-> overall]

\* The store after a block that carries the single record r: Exec, then Paging.
Block(h, r) == Paging(Exec(h, <<r>>).h, FALSE, TRUE).h

AmountOf(id) == Inscription(id).Content.amt.val

StagedKeys == {Temp[i].Key : i \in 1..Len(Temp)}

\* C13 (staged insert): a call insert(key, value) with a value of slot width
\* appends exactly the entry {key, committed value of key (zeros when there is
\* none), value, whether key was committed} to Temp, leaves Root, KV, Height
\* and Hash unchanged, and a get of key still returns the committed value.
C13_StagedInsert ==
    [][(call'.op = "insert" /\ ~aborted') =>
          LET key == call'.key
              value == call'.value
          IN  /\ Temp' = Append(Temp,
                     [Key |-> key,
                      OldValue |-> IF key \in DOMAIN Root THEN Root[key]
                                   ELSE [i \in 1..ValueSize |-> 0],
                      NewValue |-> value,
                      OldValueExists |-> key \in DOMAIN Root])
              /\ UNCHANGED <<Root, KV, Height, Hash>>
              /\ get(Header', key) = get(Header, key)]_vars

\* C13 witness: a second entry was staged by insert for a key whose committed
\* value is another one.
C13_Witness ==
    /\ call.op = "insert"
    /\ ~aborted
    /\ Len(Temp) >= 2
    /\ call.key \in DOMAIN Root
    /\ Root[call.key] # call.value
    /\ get(Header, call.key) = Root[call.key]

\* C14 (page post-state): when Paging returns, with or without an error, Temp
\* is empty, Height is one more than before, every staged key holds in KV and
\* in Root the NewValue of its last staged entry, and every other key is
\* present with the value it had, or absent as before.
C14_PagePostState ==
    [][call'.op = "Paging" =>
          /\ Temp' = <<>>
          /\ Height' = Height + 1
          /\ DOMAIN KV' = DOMAIN KV \cup StagedKeys
          /\ DOMAIN Root' = DOMAIN Root \cup StagedKeys
          /\ \A k \in StagedKeys :
                LET last == CHOOSE i \in 1..Len(Temp) :
                              /\ Temp[i].Key = k
                              /\ \A j \in 1..Len(Temp) : Temp[j].Key = k => j <= i
                IN  KV'[k] = Temp[last].NewValue /\ Root'[k] = Temp[last].NewValue
          /\ \A k \in DOMAIN KV \ StagedKeys : KV'[k] = KV[k]
          /\ \A k \in DOMAIN Root \ StagedKeys : Root'[k] = Root[k]]_vars

\* C14 witness: a page has flushed a block in which max_supply was staged
\* twice, and the stored value is the one staged last.
C14_Witness ==
    /\ call.op = "Paging"
    /\ Temp = <<>>
    /\ firstDeploy # <<>>
    /\ TickMaxSupply # firstDeploy[1]

\* C15 (page failure): when Paging is called with queryHash set and the block
\* hash cannot be fetched, it returns the error without having flushed the
\* staged writes, cleared Temp and advanced Height under the previous Hash.
C15_PageFailureNotPartial ==
    [][(call'.op = "Paging" /\ call'.queryHash /\ call'.err) =>
          ~(/\ Temp # <<>>
            /\ \A k \in StagedKeys : k \in DOMAIN KV' /\ KV'[k] = Effective(Header, k)
            /\ \A k \in StagedKeys : k \in DOMAIN Root' /\ Root'[k] = Effective(Header, k)
            /\ Temp' = <<>>
            /\ Height' = Height + 1
            /\ Hash' = Hash)]_vars

\* C16 (restore failure): whenever Deserialize returns no store, because the
\* buffer does not decode or because an insert into the rebuilt tree fails,
\* it returns an error.
C16_RestoreFailureIsError ==
    call.op = "Deserialize" => (call.ok \/ call.err)

\* C17 (snapshot round trip): Deserialize of the Serialize of a store with an
\* empty Temp, at the store's height, whose tree inserts succeed, returns a
\* store with the same KV, a Root holding exactly the entries of the store's
\* Root, the same Height and an empty Temp.
C17_SnapshotRoundTrip ==
    [][(call'.op = "Deserialize" /\ ~call'.cut /\ call'.insertOk) =>
          /\ call'.ok
          /\ ~call'.err
          /\ KV' = KV
          /\ Root' = Root
          /\ Height' = Height
          /\ Temp' = <<>>]_vars

\* C17 witness: a store of several keys, paged at least once, came back from
\* its snapshot.
C17_Witness ==
    /\ call.op = "Deserialize"
    /\ call.ok
    /\ ~call.cut
    /\ Cardinality(DOMAIN KV) >= 2
    /\ Height >= 1
    /\ Hash = EmptyHash
    /\ Temp = <<>>

\* C18 (lockstep): in every state reached from NewHeader through inserts of
\* every kind, pages and restores, KV and Root have the same keys and hold the
\* same value for each of them.
C18_Lockstep ==
    /\ DOMAIN KV = DOMAIN Root
    /\ \A k \in DOMAIN KV : KV[k] = Root[k] /\ get(Header, k) = KV[k]

\* C18 witness: a restored store of several keys with a write staged on it.
C18_Witness ==
    /\ Cardinality(DOMAIN KV) >= 2
    /\ Hash = EmptyHash
    /\ Temp # <<>>
    /\ \E i \in 1..Len(Temp) : Temp[i].Key \in DOMAIN KV /\ Temp[i].NewValue # KV[Temp[i].Key]

\* C19 (per-inscription lifecycle): in every reachable paged state, a spend
\* record stages something only if its inscription is reserved
\* (transfer_inscribe_count = 1 and transfer_transfer_count = 0), and once two
\* transfer-inscribe records of one inscription id have been applied, in one
\* batch or in two successive blocks, no spend record of that inscription
\* changes any balance.
C19_Lifecycle ==
    Paged =>
      \A id \in TransferIds : \A a \in Holders :
        LET ins == OrdTransfer(id, <<>>, a, FALSE)
            together == Exec(Header, <<ins, ins>>)
            hTogether == Paging(together.h, FALSE, TRUE).h
            first == Exec(Header, <<ins>>)
            hFirst == Paging(first.h, FALSE, TRUE).h
            second == Exec(hFirst, <<ins>>)
            hSecond == Paging(second.h, FALSE, TRUE).h
        IN  \A b \in Holders : \A fee \in BOOLEAN :
              LET spend == OrdTransfer(id, Satpoint, b, fee)
              IN  /\ Exec(Header, <<spend>>).h.Temp # <<>>
                       => (TransferInscribeCnt(id) = 1 /\ TransferTransferCnt(id) = 0)
                  /\ Len(together.ops) = 2
                       => \A o \in Holders :
                            BalanceOf(Block(hTogether, spend), o) = BalanceOf(hTogether, o)
                  /\ (Len(first.ops) = 1 /\ Len(second.ops) = 1)
                       => \A o \in Holders :
                            BalanceOf(Block(hSecond, spend), o) = BalanceOf(hSecond, o)

\* The validations a record can fail, read against the committed state of h:
\* inscribed as fee, content type, tick and op, tick length, a deploy or mint
\* being moved, the numbers of the payload, an undeployed tick, an exhausted
\* supply or a mint above the limit, an inscribe above the available balance,
\* a spend of an inscription that is not reserved.
Rejected(h, r) ==
    LET js == r.Content
        contentType == NormalizeContentType(r.ContentType)
        created == r.OldSatpoint = <<>>
        op == js["op"]
        k == GetTickStatus(ToLower(js["tick"]))
        deployed == Len(Get(h, k.keyExists)) # 0
        decimals == convertByteToInt(Get(h, k.keyDecimals))
        BadNumber(f, dec) ==
            \/ ~JsHas(js, f)
            \/ ~isPositiveNumberWithDot(js[f])
            \/ getNumberExtendedTo18Decimals(js[f], dec) = -1
            \/ getNumberExtendedTo18Decimals(js[f], dec) = 0
            \/ getNumberExtendedTo18Decimals(js[f], dec) > getLimit
        amount == getNumberExtendedTo18Decimals(js["amt"], decimals)
    IN  \/ r.SentAsFee /\ created
        \/ r.ContentType = ""
        \/ contentType \notin {"application/json", "text/plain"}
        \/ ~JsHas(js, "tick")
        \/ ~JsHas(js, "op")
        \/ Len(js["tick"]) # 4
        \/ op \in {"deploy", "mint"} /\ ~created
        \/ /\ op = "deploy"
           /\ \/ JsHas(js, "dec") /\ (~isPositiveNumber(js["dec"]) \/ js["dec"] > 18)
              \/ BadNumber("max", IF JsHas(js, "dec") THEN js["dec"] ELSE 18)
              \/ JsHas(js, "lim") /\ BadNumber("lim", IF JsHas(js, "dec") THEN js["dec"] ELSE 18)
        \/ /\ op = "mint"
           /\ \/ ~deployed
              \/ BadNumber("amt", decimals)
              \/ convertByteToInt(Get(h, k.keyRemainingSupply)) = 0
              \/ amount > convertByteToInt(Get(h, k.keyLimitPerMint))
        \/ /\ op = "transfer"
           /\ \/ ~deployed
              \/ BadNumber("amt", decimals)
              \/ created /\ amount > GetValueOrZero(h, GetHash(AvailableBalancePkscript,
                                                                r.NewPkscript, ToLower(js["tick"])))
              \/ ~created /\ ~(/\ GetValueOrZero(h, GetEventHash(TransferInscribeCount,
                                                                   r.InscriptionID)) = 1
                                /\ GetValueOrZero(h, GetEventHash(TransferTransferCount,
                                                                   r.InscriptionID)) = 0)

\* The records that follow a skipped one in the batches examined: the deploy,
\* a mint, a transfer inscription and its spend.
Followers ==
    {OrdTransfer(<<1>>, <<>>, HolderA, FALSE),
     OrdTransfer(<<3>>, <<>>, HolderB, FALSE),
     OrdTransfer(<<6>>, <<>>, HolderA, FALSE),
     OrdTransfer(<<6>>, Satpoint, HolderB, FALSE)}

\* C20 (skipped records leave no trace): in every reachable paged state, a
\* record that fails one of the validations stages nothing and leaves the
\* store as it was, and a batch in which it comes before or after another
\* record gives the store that the other record alone gives.
C20_SkippedLeaveNoTrace ==
    Paged =>
      \A r \in Records \cup SkipProbes :
        Rejected(Header, r) =>
          /\ Exec(Header, <<r>>).h = Header
          /\ \A r2 \in Followers :
                LET alone == Exec(Header, <<r2>>).h
                IN  /\ Exec(Header, <<r, r2>>).h = alone
                    /\ Exec(Header, <<r2, r>>).h = alone

\* Exec has run a batch of two records whose first record was skipped and
\* whose second is a mint that was applied.
C20_Witness ==
    /\ call.op = "Exec"
    /\ call.records = 2
    /\ call.headSkipped
    /\ applied = <<"mint">>
    /\ Temp # <<>>
    /\ Deployed

\* A blob padded with zero bytes to a whole number of slots.
PadToSlots(value) ==
    [i \in 1..(((Len(value) + ValueSize - 1) \div ValueSize) * ValueSize) |->
        IF i <= Len(value) THEN value[i] ELSE 0]

\* C21 (blob slot layout): when InsertBytes(key, value) has returned and the
\* store is paged next, the slot count read at key is the number of slots of
\* value and GetBytes(key) is value padded to a whole number of slots.
C21_BlobSlotLayout ==
    [][(call.op = "InsertBytes" /\ ~aborted /\ call'.op = "Paging")
         => /\ GetUInt256(Header', call.key) = (Len(call.value) + ValueSize - 1) \div ValueSize
            /\ GetBytes(Header', call.key) = PadToSlots(call.value)]_vars

\* The inscription ids a spend record may name.
SpendableIds == TransferIds \cup {<<9>>}

\* C22 (fatal invariants are unreachable from Exec): no run of Exec panics,
\* every tick Exec has handed to GetHash is four bytes long, and in every
\* paged state an inscription that passes the check of a spend has a stored
\* source pkscript.
C22_FatalUnreachable ==
    /\ ~aborted
    /\ \A tick \in hashed : ~GetHashPanics(tick) /\ Len(tick) = 4
    /\ Paged =>
         \A id \in SpendableIds :
           ~isUsedOrInvalid(Header, id) =>
             /\ Len(Get(Header, GetEventHash(TransferInscribeSourcePkscript1, id))) # 0
             /\ ~getSourceWalletAndPkscript(Header, id).panics

\* Exec has run a batch of a record with a five-byte tick followed by a
\* spend that was applied, and has handed only "ordi" to GetHash.
C22_Witness ==
    /\ call.op = "Exec"
    /\ call.records = 2
    /\ call.headSkipped
    /\ call.tickLens = {4, 5}
    /\ applied = <<"spend">>
    /\ spends[<<6>>] = 1
    /\ hashed = {TickOrdi}
    /\ ~aborted

====
